---- MODULE Spec2Model ----
(***************************************************************************)
(* Model of the two EV heuristics of punterx-ev-lab:                       *)
(*   src/src/ev_lab/api_outrights.py    (outrights scorer and endpoint)    *)
(*   src/src/ev_lab/simple_ev_model.py  (match scorer, score_events)       *)
(*                                                                         *)
(* Representation of the Python values:                                    *)
(*   - a float price is an integer number of hundredths (4.0 -> 400);      *)
(*   - a factor in [0,1] is an integer number of thirtieths (0.4 -> 12):   *)
(*     every factor the code returns is a tenth, hence exact, and          *)
(*     round(ev, 3) of a thirtieth-grid score never lands on a tie;        *)
(*   - an EV is an integer number of thousandths (0.22 -> 220);            *)
(*   - an instant and a duration are integer minutes; the wall clock is    *)
(*     the variable now, which never decreases;                            *)
(*   - a str the code transforms (lower, in, f-string) is a sequence of    *)
(*     one-character strings; a str that is only compared is a string;     *)
(*   - Optional[x]: None is << >> and a present x is << x >>.              *)
(***************************************************************************)
EXTENDS Integers, Sequences, FiniteSets, TLC

VARIABLES
    now,          \* the wall clock, datetime.now(timezone.utc), in minutes
    probe,        \* SpecPure: the pure function under evaluation, its arguments and result
    batch,        \* score_events: the argument events
    idx,          \* score_events: enumerate() index of the next event
    out,          \* score_events: the list out
    reads,        \* score_events: the clock value seen while the i-th event was scored
    mpc,          \* score_events: "idle", "loop", "returned"
    entry,        \* outrights: "none", "direct" (score_outright_event) or "endpoint"
    event,        \* outrights: the event dict of the call
    pc,           \* outrights: "idle", "scoring", "returned", "raised"
    delta_days,   \* outrights: Optional minutes to start seen by _time_factor
    time_f,       \* outrights: local time_f of score_outright_event
    days_to_start,\* outrights: Optional minutes to start computed for the reason
    best,         \* outrights: local best, Optional candidate
    best_ev,      \* outrights: local best_ev
    response      \* outrights: Optional OutrightsResponse returned to the caller

vars == <<now, probe, batch, idx, out, reads, mpc, entry, event, pc,
          delta_days, time_f, days_to_start, best, best_ev, response>>

matchVars == <<batch, idx, out, reads, mpc>>
outrightVars ==
    <<entry, event, pc, delta_days, time_f, days_to_start, best, best_ev, response>>

\* ---------------------------------------------------------------- bounds
\* largest price of the _price_factor grid, in hundredths (201.00)
MaxPrice == 20100
\* largest factor of the _compute_ev_raw grid, in thirtieths (30 is 1.0)
MaxFactor == 30
\* largest commence-time instant of the _score_single grid, in minutes
MaxMinutes == 1500
\* number of times the clock advances (by 48 minutes) in a behaviour
MaxTicks == 1
\* longest events list handed to score_events
MaxBatch == 2
\* most outcomes in one outrights event
MaxOutcomes == 2

\* ---------------------------------------------------------------- Python helpers
None == << >>
Some(x) == << x >>
IsNone(o) == o = << >>
Val(o) == o[1]

Min2(a, b) == IF a <= b THEN a ELSE b
Max2(a, b) == IF a >= b THEN a ELSE b

\* round(): the integer nearest to a/b (b > 0), halves to the even neighbour.
\* On a float a half is decided by its binary expansion; the grids of this
\* model (thirtieths of a factor, 48-minute clock steps) never produce one.
RoundHalfEven(a, b) ==
    LET fl == a \div b
        r2 == 2 * (a % b)
    IN  IF r2 < b THEN fl
        ELSE IF r2 > b THEN fl + 1
        ELSE IF fl % 2 = 0 THEN fl ELSE fl + 1

\* str.lower() on one character
LowerChar(c) ==
    CASE c = "A" -> "a" [] c = "B" -> "b" [] c = "C" -> "c" [] c = "D" -> "d"
      [] c = "E" -> "e" [] c = "F" -> "f" [] c = "G" -> "g" [] c = "H" -> "h"
      [] c = "I" -> "i" [] c = "J" -> "j" [] c = "K" -> "k" [] c = "L" -> "l"
      [] c = "M" -> "m" [] c = "N" -> "n" [] c = "O" -> "o" [] c = "P" -> "p"
      [] c = "Q" -> "q" [] c = "R" -> "r" [] c = "S" -> "s" [] c = "T" -> "t"
      [] c = "U" -> "u" [] c = "V" -> "v" [] c = "W" -> "w" [] c = "X" -> "x"
      [] c = "Y" -> "y" [] c = "Z" -> "z" [] OTHER -> c

\* str.lower()
Lower(s) == [i \in 1..Len(s) |-> LowerChar(s[i])]

\* the Python expression  k in s  on two str
Contains(s, k) ==
    \E i \in 0..(Len(s) - Len(k)) : \A j \in 1..Len(k) : s[i + j] = k[j]

\* ---------------------------------------------------------------- api_outrights.py, the factors
\* the price factor with the boundary 6.0 moved to the upper band
_price_factor_open(price) ==
    IF price <= 130 \/ price > 20000 THEN 0
    ELSE IF 130 < price /\ price <= 250 THEN 15
    ELSE IF 250 < price /\ price < 600 THEN 30
    ELSE IF 600 <= price /\ price <= 1500 THEN 24
    ELSE IF 1500 < price /\ price <= 3000 THEN 15
    ELSE IF 3000 < price /\ price <= 6000 THEN 9
    ELSE 6

\* _price_factor(price): price in hundredths, result in thirtieths
_price_factor(price) ==
    IF price <= 130 \/ price > 20000 THEN 0
    ELSE IF 130 < price /\ price <= 250 THEN 15
    ELSE IF 250 < price /\ price <= 600 THEN 30
    ELSE IF 600 < price /\ price <= 1500 THEN 24
    ELSE IF 1500 < price /\ price <= 3000 THEN 15
    ELSE IF 3000 < price /\ price <= 6000 THEN 9
    ELSE 6

\* the EV with the priority weight subtracted
_compute_ev_raw_minus(tf, pf, prf) ==
    LET score == (4 * tf) + (4 * pf) - (2 * prf)
        score_clamped == Max2(0, Min2(300, score))
    IN  RoundHalfEven(250 * score_clamped, 300)

\* _compute_ev_raw(time_f, price_f, priority_f): factors in thirtieths, result
\* in thousandths.  score is kept in 300ths (0.4*t = 4t/300 for t thirtieths).
_compute_ev_raw(tf, pf, prf) ==
    LET score == (4 * tf) + (4 * pf) + (2 * prf)
        score_clamped == Max2(0, Min2(300, score))
    IN  RoundHalfEven(250 * score_clamped, 300)

\* ---------------------------------------------------------------- simple_ev_model.py
\* A match event is a record: fixture_id, market, league and the four time
\* aliases.  A time field is [kind |-> "none" | "bad" | "iso", t |-> minutes]:
\* absent or falsy, a string fromisoformat rejects, or an ISO-8601 instant.
NoTime == [kind |-> "none", t |-> 0]
BadTime == [kind |-> "bad", t |-> 0]
Iso(t) == [kind |-> "iso", t |-> t]

\* _minutes_to_start(ev): Optional minutes
_minutes_to_start(ev, clock) ==
    LET iso == IF ev.commence_time.kind # "none" THEN ev.commence_time
               ELSE IF ev.tsISO.kind # "none" THEN ev.tsISO
               ELSE IF ev.fixture_date.kind # "none" THEN ev.fixture_date
               ELSE ev.date
    IN  IF iso.kind = "none" THEN None
        ELSE IF iso.kind = "bad" THEN None
        ELSE Some(iso.t - clock)

keywords ==
    << <<"w","o","r","l","d"," ","c","u","p">>,
       <<"c","h","a","m","p","i","o","n","s"," ","l","e","a","g","u","e">>,
       <<"p","r","e","m","i","e","r"," ","l","e","a","g","u","e">>,
       <<"l","a"," ","l","i","g","a">>,
       <<"s","e","r","i","e"," ","a">>,
       <<"b","u","n","d","e","s","l","i","g","a">>,
       <<"l","i","g","u","e"," ","1">>,
       <<"e","u","r","o","p","a"," ","l","e","a","g","u","e">> >>

\* the keyword match on the name as written, without lower()
_is_big_league_cased(name) ==
    IF name = << >> THEN FALSE
    ELSE \E k \in 1..Len(keywords) : Contains(name, keywords[k])

\* _is_big_league(name)
_is_big_league(name) ==
    IF name = << >> THEN FALSE
    ELSE LET s == Lower(name)
         IN  \E k \in 1..Len(keywords) : Contains(s, keywords[k])

\* _score_single(ev): EV in thousandths
_score_single(ev, clock) ==
    LET mins == _minutes_to_start(ev, clock)
        league == IF IsNone(ev.league) THEN << >> ELSE Val(ev.league)
        bump == IF IsNone(mins) THEN 0
                ELSE LET m == Val(mins)
                     IN  IF 20 <= m /\ m <= 60 THEN 30
                         ELSE IF 60 < m /\ m <= 180 THEN 25
                         ELSE IF 180 < m /\ m <= 360 THEN 20
                         ELSE IF 360 < m /\ m <= 1440 THEN 15
                         ELSE 0
        base == 10 + bump + (IF _is_big_league(league) THEN 15 ELSE 0)
    IN  Max2(0, Min2(100, base))

\* ---------------------------------------------------------------- sample strings
UCL == <<"U","E","F","A"," ","C","h","a","m","p","i","o","n","s"," ","L","e","a","g","u","e">>
LaLiga == <<"L","a"," ","L","i","g","a">>
MLS == <<"M","L","S">>
SerieB == <<"S","e","r","i","e"," ","B">>
Ligue1Upper == <<"L","I","G","U","E"," ","1"," ","U","B","E","R">>

\* the league field of a match event: absent, "", and five names
Leagues == {None, Some(<< >>), Some(UCL), Some(LaLiga), Some(MLS), Some(SerieB),
            Some(Ligue1Upper)}

\* the fixture_id field: absent, None, an int or a str
FidAbsent == [kind |-> "absent", n |-> 0, s |-> ""]
FidNone == [kind |-> "none", n |-> 0, s |-> ""]
FidInt(n) == [kind |-> "int", n |-> n, s |-> ""]
FidStr(s) == [kind |-> "str", n |-> 0, s |-> s]

MatchEvent(fid, mk, lg, ct, ts, fd, dt) ==
    [fixture_id |-> fid, market |-> mk, league |-> lg, commence_time |-> ct,
     tsISO |-> ts, fixture_date |-> fd, date |-> dt]

PlainEvent == MatchEvent(FidAbsent, None, None, NoTime, NoTime, NoTime, NoTime)

\* ---------------------------------------------------------------- idle values
NoEvent == [valid |-> TRUE, sport_key |-> None, sport_title |-> None,
            commence_time |-> None, bookmakers |-> << >>]

MatchIdle ==
    /\ batch = << >>
    /\ idx = 0
    /\ out = << >>
    /\ reads = << >>
    /\ mpc = "idle"

OutrightIdle ==
    /\ entry = "none"
    /\ event = NoEvent
    /\ pc = "idle"
    /\ delta_days = None
    /\ time_f = 0
    /\ days_to_start = None
    /\ best = None
    /\ best_ev = -1000
    /\ response = None

\* ---------------------------------------------------------------- SpecPure
\* The pure functions applied to a grid of arguments.  probe holds the function
\* name, its arguments (a, b, c are numbers, ev a match event), the minutes to
\* start _score_single saw, and ret, None until the function has returned.
Probe(fn, a, b, c, ev) ==
    [fn |-> fn, a |-> a, b |-> b, c |-> c, ev |-> ev, mins |-> None, ret |-> None]

NoProbe == Probe("none", 0, 0, 0, PlainEvent)

PriceProbes == {Probe("_price_factor", p, 0, 0, PlainEvent) : p \in 0..MaxPrice}

FactorProbes ==
    {Probe("_compute_ev_raw", t, p, q, PlainEvent) :
        t \in 0..MaxFactor, p \in 0..MaxFactor, q \in 0..MaxFactor}

\* match events for _score_single: every commence_time with no alias, and every
\* alias combination behind an absent or unparseable commence_time
SingleEvents ==
    {MatchEvent(FidAbsent, None, lg, ct, NoTime, NoTime, NoTime) :
        lg \in Leagues, ct \in {NoTime, BadTime} \cup {Iso(t) : t \in 0..MaxMinutes}}
    \cup
    {MatchEvent(FidAbsent, None, lg, ct, ts, fd, dt) :
        lg \in {None, Some(UCL)}, ct \in {NoTime, BadTime},
        ts \in {NoTime, Iso(40)}, fd \in {NoTime, BadTime, Iso(100)},
        dt \in {NoTime, Iso(400)}}

SingleProbes == {Probe("_score_single", 0, 0, 0, ev) : ev \in SingleEvents}

InitPure ==
    /\ probe \in PriceProbes \cup FactorProbes \cup SingleProbes
    /\ now \in (IF probe.fn = "_score_single" THEN {0, 48 * MaxTicks} ELSE {0})
    /\ MatchIdle
    /\ OutrightIdle

ApplyPriceFactor ==
    /\ probe.fn = "_price_factor"
    /\ IsNone(probe.ret)
    /\ probe' = [probe EXCEPT !.ret = Some(_price_factor(probe.a))]
    /\ UNCHANGED <<now, matchVars, outrightVars>>

ApplyComputeEvRaw ==
    /\ probe.fn = "_compute_ev_raw"
    /\ IsNone(probe.ret)
    /\ probe' = [probe EXCEPT !.ret = Some(_compute_ev_raw(probe.a, probe.b, probe.c))]
    /\ UNCHANGED <<now, matchVars, outrightVars>>

ApplyScoreSingle ==
    /\ probe.fn = "_score_single"
    /\ IsNone(probe.ret)
    /\ probe' = [probe EXCEPT !.mins = _minutes_to_start(probe.ev, now),
                              !.ret = Some(_score_single(probe.ev, now))]
    /\ UNCHANGED <<now, matchVars, outrightVars>>

NextPure == ApplyPriceFactor \/ ApplyComputeEvRaw \/ ApplyScoreSingle

SpecPure == InitPure /\ [][NextPure]_vars

\* C4: for every price p, _price_factor(p) is one of 0.0, 0.2, 0.3, 0.5, 0.8,
\* 1.0; it is 0.0 exactly when p <= 1.3 or p > 200; otherwise it follows the
\* bands (1.3,2.5] -> 0.5, (2.5,6] -> 1.0, (6,15] -> 0.8, (15,30] -> 0.5,
\* (30,60] -> 0.3, (60,200] -> 0.2, a boundary belonging to the lower band.
Thm_C4_PriceBands ==
    (probe.fn = "_price_factor" /\ ~IsNone(probe.ret)) =>
        LET p == probe.a
            r == Val(probe.ret)
        IN  /\ r \in {0, 6, 9, 15, 24, 30}
            /\ (r = 0) <=> (p <= 130 \/ p > 20000)
            /\ (130 < p /\ p <= 250) => r = 15
            /\ (250 < p /\ p <= 600) => r = 30
            /\ (600 < p /\ p <= 1500) => r = 24
            /\ (1500 < p /\ p <= 3000) => r = 15
            /\ (3000 < p /\ p <= 6000) => r = 9
            /\ (6000 < p /\ p <= 20000) => r = 6

\* _price_factor has returned 1.0 for the boundary price 6.0
Wit_C4_Boundary ==
    probe.fn = "_price_factor" /\ probe.a = 600 /\ probe.ret = Some(30)

\* C3: for factors in [0,1], _compute_ev_raw is
\* round(0.25 * (0.4*time_f + 0.4*price_f + 0.2*priority_f), 3), lies in
\* [0, 0.25], and does not decrease when one factor grows and the other two
\* stay fixed.
Thm_C3_EvMonotoneBounded ==
    (/\ probe.fn = "_compute_ev_raw"
     /\ ~IsNone(probe.ret)
     /\ probe.a <= 30 /\ probe.b <= 30 /\ probe.c <= 30) =>
        LET r == Val(probe.ret)
        IN  /\ 0 <= r /\ r <= 250
            /\ r = RoundHalfEven(5 * ((2 * probe.a) + (2 * probe.b) + probe.c), 3)
            /\ \A x \in 0..30 :
                /\ x >= probe.a => _compute_ev_raw(x, probe.b, probe.c) >= r
                /\ x >= probe.b => _compute_ev_raw(probe.a, x, probe.c) >= r
                /\ x >= probe.c => _compute_ev_raw(probe.a, probe.b, x) >= r

\* _compute_ev_raw has returned a rounded value strictly inside (0, 0.25):
\* time 0.1, price 0.3, priority 1/30 give 0.25 * 0.1667 = 0.0417 -> 0.042
Wit_C3_Rounded ==
    /\ probe.fn = "_compute_ev_raw"
    /\ probe.a = 3 /\ probe.b = 9 /\ probe.c = 1
    /\ probe.ret = Some(42)

\* the time-window bump of the claim, in thousandths, for defined minutes m
ClaimBump(m) ==
    CASE 20 <= m /\ m <= 60 -> 30
      [] 60 < m /\ m <= 180 -> 25
      [] 180 < m /\ m <= 360 -> 20
      [] 360 < m /\ m <= 1440 -> 15
      [] OTHER -> 0

\* the sample leagues whose name contains one of the keywords
BigLeagueSamples == {Some(UCL), Some(LaLiga), Some(Ligue1Upper)}

\* C7: the ev of a match event is 0.01 plus the time-window bump (none when
\* minutes-to-start is undefined) plus 0.015 for a keyword league, clamped to
\* [0, 0.10]; no time and no league give 0.01, "UEFA Champions League" and no
\* time give 0.025.
Thm_C7_MatchEv ==
    (probe.fn = "_score_single" /\ ~IsNone(probe.ret)) =>
        LET r == Val(probe.ret)
            bump == IF IsNone(probe.mins) THEN 0 ELSE ClaimBump(Val(probe.mins))
            big == IF probe.ev.league \in BigLeagueSamples THEN 15 ELSE 0
        IN  /\ r = Max2(0, Min2(100, 10 + bump + big))
            /\ (IsNone(probe.mins) /\ IsNone(probe.ev.league)) => r = 10
            /\ (IsNone(probe.mins) /\ probe.ev.league = Some(UCL)) => r = 25

\* _score_single has scored "UEFA Champions League" without a time signal
Wit_C7_LeagueOnly ==
    /\ probe.fn = "_score_single"
    /\ probe.ev.league = Some(UCL)
    /\ probe.ev.commence_time = NoTime /\ probe.ev.tsISO = NoTime
    /\ probe.ev.fixture_date = NoTime /\ probe.ev.date = NoTime
    /\ probe.ret = Some(25)

\* ---------------------------------------------------------------- the wall clock
\* The clock advances, by 48 minutes at a time, at any point of a call.
Tick ==
    /\ now < 48 * MaxTicks
    /\ now' = now + 48
    /\ UNCHANGED <<probe, matchVars, outrightVars>>

\* ---------------------------------------------------------------- score_events
\* str(x) of a fixture_id value
StrOfFid(f) ==
    CASE f.kind = "int" -> ToString(f.n)
      [] f.kind = "str" -> f.s
      [] OTHER -> "None"

\* ev.get("fixture_id"): a falsy value is None (absent), None, 0 or ""
FidTruthy(f) == (f.kind = "int" /\ f.n # 0) \/ (f.kind = "str" /\ f.s # "")

\* the fixture id with every present value accepted
fixture_id_present(ev, i) ==
    IF ev.fixture_id.kind # "absent" THEN StrOfFid(ev.fixture_id) ELSE ToString(i)

\* fixture_id = str(ev.get("fixture_id") or idx)
fixture_id_of(ev, i) ==
    IF FidTruthy(ev.fixture_id) THEN StrOfFid(ev.fixture_id) ELSE ToString(i)

\* the EvPrediction built for one event of the batch
EvPrediction(ev, i, clock) ==
    LET ev_val == _score_single(ev, clock)
        prob == 500 + ev_val
    IN  [fixture_id |-> fixture_id_of(ev, i),
         market |-> IF IsNone(ev.market) \/ ev.market = Some("")
                    THEN "h2h" ELSE Val(ev.market),
         ev |-> ev_val,
         prob_model |-> Min2(990, Max2(10, prob)),
         version |-> "lab_v1_time_league",
         meta |-> <<"time_window", "league_importance">>]

\* the loop body with the first event scored at every index
score_events_body_first(events, i, o, clock) ==
    Append(o, EvPrediction(events[1], i, clock))

\* one iteration of  for idx, ev in enumerate(events or [])
score_events_body(events, i, o, clock) ==
    Append(o, EvPrediction(events[i + 1], i, clock))

\* the match events handed to score_events
MatchSamples ==
    {MatchEvent(f, None, None, NoTime, NoTime, NoTime, NoTime) :
        f \in {FidAbsent, FidNone, FidInt(0), FidInt(7), FidStr(""), FidStr("A9")}}
    \cup
    {MatchEvent(FidAbsent, Some("totals"), None, NoTime, NoTime, NoTime, NoTime),
     MatchEvent(FidAbsent, None, Some(UCL), NoTime, NoTime, NoTime, NoTime),
     MatchEvent(FidAbsent, None, None, Iso(96), NoTime, NoTime, NoTime),
     MatchEvent(FidInt(7), Some(""), Some(UCL), NoTime, BadTime, Iso(96), NoTime)}

Batches == UNION {[1..n -> MatchSamples] : n \in 0..MaxBatch}

InitMatch ==
    /\ now = 0
    /\ probe = NoProbe
    /\ MatchIdle
    /\ OutrightIdle

ScoreEventsCall ==
    /\ mpc = "idle"
    /\ \E events \in Batches : batch' = events
    /\ idx' = 0
    /\ out' = << >>
    /\ reads' = << >>
    /\ mpc' = "loop"
    /\ UNCHANGED <<now, probe, outrightVars>>

ScoreEventsStep ==
    /\ mpc = "loop"
    /\ idx < Len(batch)
    /\ out' = score_events_body(batch, idx, out, now)
    /\ reads' = Append(reads, now)
    /\ idx' = idx + 1
    /\ UNCHANGED <<now, probe, batch, mpc, outrightVars>>

ScoreEventsReturn ==
    /\ mpc = "loop"
    /\ idx = Len(batch)
    /\ mpc' = "returned"
    /\ UNCHANGED <<now, probe, batch, idx, out, reads, outrightVars>>

NextMatch == Tick \/ ScoreEventsCall \/ ScoreEventsStep \/ ScoreEventsReturn

SpecMatch == InitMatch /\ [][NextMatch]_vars

\* C5: score_events returns one prediction per input element, in input order
\* and of the input's length; the i-th prediction is computed from the i-th
\* event alone (with the clock read while it was scored); an empty input
\* gives an empty output.
Thm_C5_OnePerEvent ==
    (mpc = "returned") =>
        /\ Len(out) = Len(batch)
        /\ (batch = << >>) => (out = << >>)
        /\ \A i \in 1..Len(batch) :
            /\ out[i].ev = _score_single(batch[i], reads[i])
            /\ out[i].prob_model = 500 + out[i].ev
            /\ out[i].market = (IF batch[i].market \in {None, Some("")}
                                THEN "h2h" ELSE Val(batch[i].market))
            /\ FidTruthy(batch[i].fixture_id) =>
                   out[i].fixture_id = StrOfFid(batch[i].fixture_id)

\* score_events has returned two predictions with different ev for a batch of
\* two different events
Wit_C5_TwoEvents ==
    /\ mpc = "returned"
    /\ Len(batch) = 2
    /\ batch[1] # batch[2]
    /\ out[1].ev = 10
    /\ out[2].ev = 25

\* C6 as stated: the fixture id is the stringified fixture_id field whenever
\* the field is present, whatever its value, and the stringified index only
\* when the field is absent.
Cex_C6_PresentFieldWins ==
    (mpc = "returned") =>
        \A i \in 1..Len(batch) :
            out[i].fixture_id =
                (IF batch[i].fixture_id.kind # "absent"
                 THEN StrOfFid(batch[i].fixture_id) ELSE ToString(i - 1))

\* C6 amended: the fixture id is the stringified fixture_id field when the
\* field is present and truthy, and the stringified positional index when the
\* field is absent or falsy (None, 0, "").
Thm_C6_TruthyFieldWins ==
    (mpc = "returned") =>
        \A i \in 1..Len(batch) :
            LET f == batch[i].fixture_id
            IN  /\ (f.kind = "int" /\ f.n # 0) => out[i].fixture_id = ToString(f.n)
                /\ (f.kind = "str" /\ f.s # "") => out[i].fixture_id = f.s
                /\ (f.kind \in {"absent", "none"}) => out[i].fixture_id = ToString(i - 1)
                /\ (f.kind = "int" /\ f.n = 0) => out[i].fixture_id = ToString(i - 1)
                /\ (f.kind = "str" /\ f.s = "") => out[i].fixture_id = ToString(i - 1)

\* score_events has returned the index "1" for a second event whose fixture_id is 0
Wit_C6_ZeroFallsBack ==
    /\ mpc = "returned"
    /\ Len(batch) = 2
    /\ batch[2].fixture_id = FidInt(0)
    /\ out[2].fixture_id = "1"

\* ---------------------------------------------------------------- api_outrights.py, the scorer
KeyWinner == <<"w","i","n","n","e","r">>
KeyOutrights == <<"O","u","t","r","i","g","h","t","s">>
KeyH2h == <<"h","2","h">>
NameX == <<"X">>
NameY == <<"Y">>
NA == <<"N","/","A">>
Error == <<"E","r","r","o","r">>

\* OUTRIGHTS_PRIORITY.get(sport_key, "baja")
OUTRIGHTS_PRIORITY(sport_key) ==
    CASE sport_key = "soccer_fifa_world_cup_winner" -> "alta"
      [] sport_key = "soccer_uefa_champions_league_winner" -> "alta"
      [] sport_key = "soccer_uefa_european_championship_winner" -> "alta"
      [] sport_key = "soccer_copa_america_winner" -> "media"
      [] sport_key = "soccer_uefa_europa_league_winner" -> "media"
      [] OTHER -> "baja"

\* the priority factor with no floor for a missing sport key
_priority_factor_nofloor(sport_key) ==
    IF IsNone(sport_key) \/ sport_key = Some("") THEN 0
    ELSE LET level == OUTRIGHTS_PRIORITY(Val(sport_key))
         IN  IF level = "alta" THEN 30
             ELSE IF level = "media" THEN 21
             ELSE 12

\* _priority_factor(sport_key): thirtieths
_priority_factor(sport_key) ==
    IF IsNone(sport_key) \/ sport_key = Some("") THEN 12
    ELSE LET level == OUTRIGHTS_PRIORITY(Val(sport_key))
         IN  IF level = "alta" THEN 30
             ELSE IF level = "media" THEN 21
             ELSE 12

\* delta_days of _time_factor, kept in minutes: commence_time - now
DeltaMinutes(commence_time, clock) == Val(commence_time) - clock

\* _time_factor(commence_time): thirtieths; a day is 1440 minutes.  A naive
\* commence_time gets tzinfo UTC (line 90), which leaves its instant unchanged.
_time_factor(commence_time, clock) ==
    IF IsNone(commence_time) THEN 0
    ELSE LET delta == DeltaMinutes(commence_time, clock)
         IN  IF delta <= 0 THEN 0
             ELSE IF delta > 365 * 1440 THEN 3
             ELSE IF delta > 30 * 1440 THEN 12
             ELSE IF delta > 7 * 1440 THEN 21
             ELSE 30

\* the candidates of one market: outcomes with price > 1.0, in order.
\* float(outcome.price) cannot raise here: Event.parse_obj has made it a float.
OutcomeCands(title, key, outcomes) ==
    LET F[i \in 0..Len(outcomes)] ==
            IF i = 0 THEN << >>
            ELSE IF outcomes[i].price <= 100 THEN F[i - 1]
            ELSE Append(F[i - 1], [bm_title |-> title,
                                   outcome_name |-> outcomes[i].name,
                                   price |-> outcomes[i].price,
                                   mkey |-> key])
    IN  F[Len(outcomes)]

\* the market filter of _flatten_candidates on the lowercased key
KeyAccepted(key) ==
    ~(~Contains(key, <<"o","u","t","r","i","g","h","t">>)
      /\ key \notin {<<"o","u","t","r","i","g","h","t","s">>, KeyWinner})

\* the candidates of one bookmaker carrying the market key as given
MarketCandsKeyAsGiven(title, markets) ==
    LET F[i \in 0..Len(markets)] ==
            IF i = 0 THEN << >>
            ELSE IF ~KeyAccepted(Lower(markets[i].key)) THEN F[i - 1]
                 ELSE F[i - 1] \o OutcomeCands(title, markets[i].key, markets[i].outcomes)
    IN  F[Len(markets)]

\* the candidates of one bookmaker: its accepted markets, in order
MarketCands(title, markets) ==
    LET F[i \in 0..Len(markets)] ==
            IF i = 0 THEN << >>
            ELSE LET key == Lower(markets[i].key)
                 IN  IF ~KeyAccepted(key) THEN F[i - 1]
                     ELSE F[i - 1] \o OutcomeCands(title, key, markets[i].outcomes)
    IN  F[Len(markets)]

\* _flatten_candidates(event)
_flatten_candidates(ev) ==
    LET bms == ev.bookmakers
        F[i \in 0..Len(bms)] ==
            IF i = 0 THEN << >>
            ELSE LET title == IF bms[i].title = "" THEN "Unknown" ELSE bms[i].title
                 IN  F[i - 1] \o MarketCands(title, bms[i].markets)
    IN  F[Len(bms)]

\* the selection loop with >= : the last candidate of equal EV wins
BestOfLastWins(candidates, tf, prf) ==
    LET F[i \in 0..Len(candidates)] ==
            IF i = 0 THEN [best |-> None, best_ev |-> -1000]
            ELSE LET ev_val == _compute_ev_raw(tf, _price_factor(candidates[i].price), prf)
                 IN  IF ev_val >= F[i - 1].best_ev
                     THEN [best |-> Some(candidates[i]), best_ev |-> ev_val]
                     ELSE F[i - 1]
    IN  F[Len(candidates)]

\* the selection loop of score_outright_event: best and best_ev after the for
BestOf(candidates, tf, prf) ==
    LET F[i \in 0..Len(candidates)] ==
            IF i = 0 THEN [best |-> None, best_ev |-> -1000]
            ELSE LET ev_val == _compute_ev_raw(tf, _price_factor(candidates[i].price), prf)
                 IN  IF ev_val > F[i - 1].best_ev
                     THEN [best |-> Some(candidates[i]), best_ev |-> ev_val]
                     ELSE F[i - 1]
    IN  F[Len(candidates)]

\* Event.parse_obj(event_dict) never raising
parse_obj_accepts_all(event_dict) == FALSE

\* Event.parse_obj(event_dict) raises ValidationError
parse_obj_raises(event_dict) == ~event_dict.valid

\* the edge_reason string: its fixed text and the values embedded in it
Reason(text, sport, days, name, price, bm) ==
    [text |-> text, sport_title |-> sport, days_txt |-> days,
     outcome_name |-> name, price |-> price, bm_title |-> bm]

FixedReason(text) == Reason(text, "", None, << >>, 0, "")

\* OutrightsResponse(...)
OutrightsResponse(ev, name, key, price, bm, reason) ==
    [ev |-> ev, selection_name |-> name, selection_key |-> key, price |-> price,
     bookmaker_title |-> bm, edge_reason |-> reason]

ZeroResponse(text) == OutrightsResponse(0, NA, None, 100, "N/A", FixedReason(text))

ErrorResponse ==
    OutrightsResponse(0, Error, None, 100, "N/A", FixedReason("error_modelo: {exc}"))

\* days_to_start with the operands swapped
days_to_start_swapped(event_ct, clock) == clock - Val(event_ct)

\* days_to_start of score_outright_event, kept in minutes: event_ct - now
days_to_start_of(event_ct, clock) == Val(event_ct) - clock

\* f"{days_to_start:.1f}": tenths of a day nearest to the minutes (144 per tenth)
FormatDays(minutes) == RoundHalfEven(minutes, 144)

\* the response built for the selected candidate, lines 212-243
SelectionResponse(ev, b, bev, days) ==
    LET selection_key == b.mkey \o <<":">> \o b.outcome_name
        days_txt == IF IsNone(days) THEN None ELSE Some(FormatDays(Val(days)))
        sport_title ==
            IF ~IsNone(ev.sport_title) /\ ev.sport_title # Some("") THEN Val(ev.sport_title)
            ELSE IF ~IsNone(ev.sport_key) /\ ev.sport_key # Some("") THEN Val(ev.sport_key)
            ELSE "torneo"
    IN  OutrightsResponse(bev, b.outcome_name, Some(selection_key), b.price, b.bm_title,
            Reason("Torneo: {}. Comienza en {}. Seleccion: {} @ {} en {}.",
                   sport_title, days_txt, b.outcome_name, b.price, b.bm_title))

\* ---------------------------------------------------------------- outrights events
Outcome(name, price) == [name |-> name, price |-> price]

\* prices 1.3 (price factor 0.0) and 4.0 (price factor 1.0, twice: a tie)
Outcomes == {Outcome(NameX, 130), Outcome(NameX, 400), Outcome(NameY, 400)}
Keys == {KeyWinner, KeyOutrights, KeyH2h}
Titles == {"", "A"}

Market(key, outcomes) == [key |-> key, outcomes |-> outcomes]
Bookmaker(title, markets) == [title |-> title, markets |-> markets]

Event(sk, st, ct, bms) ==
    [valid |-> TRUE, sport_key |-> sk, sport_title |-> st, commence_time |-> ct,
     bookmakers |-> bms]

\* A bookmaker list is written down outcome by outcome: each slot holds one
\* outcome and says whether it opens a new bookmaker ("bm", with a title and a
\* market key), a new market of the current bookmaker ("mk", with a key) or
\* continues the current market ("out").
Slot(o, brk, key, title) == [o |-> o, brk |-> brk, key |-> key, title |-> title]

Slots ==
    {Slot(o, "bm", k, t) : o \in Outcomes, k \in Keys, t \in Titles}
    \cup {Slot(o, "mk", k, "") : o \in Outcomes, k \in Keys}
    \cup {Slot(o, "out", KeyWinner, "") : o \in Outcomes}

\* the bookmaker list a sequence of slots describes (the first slot is a "bm")
BuildBookmakers(slots) ==
    LET F[i \in 0..Len(slots)] ==
            IF i = 0 THEN << >>
            ELSE LET s == slots[i]
                     prev == F[i - 1]
                     nb == Len(prev)
                 IN  IF s.brk = "bm"
                     THEN Append(prev, Bookmaker(s.title, <<Market(s.key, <<s.o>>)>>))
                     ELSE IF s.brk = "mk"
                     THEN [prev EXCEPT ![nb].markets = Append(@, Market(s.key, <<s.o>>))]
                     ELSE [prev EXCEPT ![nb].markets[Len(prev[nb].markets)].outcomes =
                                           Append(@, s.o)]
    IN  F[Len(slots)]

\* a bookmaker without markets, a market without outcomes, and markets with
\* an outcome of price 1.0 (discarded), alone, before and after a valid one
EdgeEvents ==
    {Event(None, None, None, <<Bookmaker("A", ms)>>) :
        ms \in {<< >>,
                <<Market(KeyWinner, << >>)>>,
                <<Market(KeyWinner, <<Outcome(NameX, 100)>>)>>,
                <<Market(KeyWinner, <<Outcome(NameX, 100), Outcome(NameY, 400)>>)>>,
                <<Market(KeyWinner, <<Outcome(NameX, 130), Outcome(NameY, 100)>>)>>}}

\* commence times around the steps of _time_factor: 0, 7, 30 and 365 days
CommenceTimes ==
    {None} \cup {Some(d + k) : d \in {0, 7 * 1440, 30 * 1440, 365 * 1440},
                               k \in {0, 48, 96}}
SportKeys == {None, Some(""), Some("soccer_fifa_world_cup_winner"),
              Some("soccer_copa_america_winner"), Some("soccer_epl")}

\* every sport key and commence time, over one outcome of price 4.0 or 1.3
ClockEvents ==
    {Event(sk, st, ct, <<Bookmaker("A", <<Market(KeyWinner, <<o>>)>>)>>) :
        sk \in SportKeys, st \in {None, Some("Copa")}, ct \in CommenceTimes,
        o \in {Outcome(NameX, 400), Outcome(NameX, 130)}}

\* an event dict that does not validate against the Event schema
BadEvent == [valid |-> FALSE, sport_key |-> None, sport_title |-> None,
             commence_time |-> None, bookmakers |-> << >>]

\* ---------------------------------------------------------------- SpecOutright
InitOutright ==
    /\ now = 0
    /\ probe = NoProbe
    /\ MatchIdle
    /\ OutrightIdle

\* score_outright_event up to its first return or to the end of the selection
\* loop (lines 166-210), called directly or inside the try of the endpoint
StartScoring(e, ent) ==
    /\ entry' = ent
    /\ event' = e
    /\ days_to_start' = None
    /\ IF parse_obj_raises(e)
       THEN /\ pc' = IF ent = "endpoint" THEN "returned" ELSE "raised"
            /\ response' = IF ent = "endpoint" THEN Some(ErrorResponse) ELSE None
            /\ UNCHANGED <<delta_days, time_f, best, best_ev>>
       ELSE IF e.bookmakers = << >>
       THEN /\ pc' = "returned"
            /\ response' = Some(ZeroResponse("Sin bookmakers en el evento; no se puede evaluar EV."))
            /\ UNCHANGED <<delta_days, time_f, best, best_ev>>
       ELSE LET candidates == _flatten_candidates(e)
            IN  IF candidates = << >>
                THEN /\ pc' = "returned"
                     /\ response' = Some(ZeroResponse("Sin outcomes validos de outrights en el evento."))
                     /\ UNCHANGED <<delta_days, time_f, best, best_ev>>
                ELSE LET tf == _time_factor(e.commence_time, now)
                         priority_f == _priority_factor(e.sport_key)
                         r == BestOf(candidates, tf, priority_f)
                     IN  /\ time_f' = tf
                         /\ delta_days' = IF IsNone(e.commence_time) THEN None
                                          ELSE Some(DeltaMinutes(e.commence_time, now))
                         /\ best' = r.best
                         /\ best_ev' = r.best_ev
                         /\ IF IsNone(r.best) \/ r.best_ev <= 0
                            THEN /\ pc' = "returned"
                                 /\ response' = Some(ZeroResponse("Modelo heuristico no encontro valor en este torneo."))
                            ELSE /\ pc' = "scoring"
                                 /\ response' = None
    /\ UNCHANGED <<now, probe, matchVars>>

\* a direct call of score_outright_event(event_dict): with an event of the
\* clock family, a degenerate or malformed one, or with every bookmaker list
\* of at most MaxOutcomes outcomes (no sport key, no commence time)
ScoreOutrightEvent ==
    /\ pc = "idle"
    /\ \/ \E e \in ClockEvents \cup EdgeEvents \cup {BadEvent} : StartScoring(e, "direct")
       \/ \E n \in 0..MaxOutcomes : \E slots \in [1..n -> Slots] :
              /\ n > 0 => slots[1].brk = "bm"
              /\ StartScoring(Event(None, None, None, BuildBookmakers(slots)), "direct")

\* POST /ev/outrights/score: ev_outrights_score(payload).  BadEvent stands for
\* a payload whose event.dict() fails the validation of score_outright_event
\* (an Event built without validation); the except of lines 268-277 answers it.
EvOutrightsScore ==
    /\ pc = "idle"
    /\ \E e \in ClockEvents \cup {BadEvent} : StartScoring(e, "endpoint")

\* the rest of score_outright_event (lines 212-243): the second clock read,
\* the edge reason and the return
FinishScoring ==
    /\ pc = "scoring"
    /\ LET days == IF IsNone(event.commence_time) THEN None
                   ELSE Some(days_to_start_of(event.commence_time, now))
       IN  /\ days_to_start' = days
           /\ response' = Some(SelectionResponse(event, Val(best), best_ev, days))
    /\ pc' = "returned"
    /\ UNCHANGED <<now, probe, matchVars, entry, event, delta_days, time_f, best, best_ev>>

NextOutright == Tick \/ ScoreOutrightEvent \/ EvOutrightsScore \/ FinishScoring

SpecOutright == InitOutright /\ [][NextOutright]_vars

\* ---------------------------------------------------------------- outrights claims
\* The outcomes of an event by position <<bookmaker, market, outcome>>.
Positions(e) ==
    UNION {UNION {{<<b, m, o>> : o \in 1..Len(e.bookmakers[b].markets[m].outcomes)} :
                      m \in 1..Len(e.bookmakers[b].markets)} :
               b \in 1..Len(e.bookmakers)}

MarketAt(e, p) == e.bookmakers[p[1]].markets[p[2]]
OutcomeAt(e, p) == MarketAt(e, p).outcomes[p[3]]
TitleAt(e, p) ==
    IF e.bookmakers[p[1]].title = "" THEN "Unknown" ELSE e.bookmakers[p[1]].title

\* the sample keys that name an outrights market: "winner" and "Outrights"
OutrightKeys == {KeyWinner, KeyOutrights}

\* the positions that pass the market and price filter
CandidatePositions(e) ==
    {p \in Positions(e) : MarketAt(e, p).key \in OutrightKeys /\ OutcomeAt(e, p).price > 100}

\* input order: bookmakers, then markets, then outcomes
Before(p, q) ==
    \/ p[1] < q[1]
    \/ p[1] = q[1] /\ p[2] < q[2]
    \/ p[1] = q[1] /\ p[2] = q[2] /\ p[3] < q[3]

\* the EV of the candidate at a position, with the time factor of the call
EvAt(e, p) ==
    _compute_ev_raw(time_f, _price_factor(OutcomeAt(e, p).price),
                    _priority_factor(e.sport_key))

\* the first position, in input order, whose EV is the maximum
FirstBest(e) ==
    CHOOSE p \in CandidatePositions(e) :
        \A q \in CandidatePositions(e) :
            /\ EvAt(e, q) <= EvAt(e, p)
            /\ Before(q, p) => EvAt(e, q) < EvAt(e, p)

HasCandidates == event.valid /\ CandidatePositions(event) # {}

\* the call has returned a response (not raised)
Returned == pc = "returned" /\ ~IsNone(response)

\* C2: for an event with at least one candidate, the returned candidate is the
\* first one, in input order, whose EV is the maximum over all candidates,
\* and the returned ev is that maximum.
Thm_C2_FirstMaxWins ==
    (Returned /\ HasCandidates) =>
        LET p == FirstBest(event)
            r == Val(response)
        IN  /\ \A q \in CandidatePositions(event) : EvAt(event, q) <= r.ev
            /\ r.ev = EvAt(event, p)
            /\ r.selection_name = OutcomeAt(event, p).name
            /\ r.price = OutcomeAt(event, p).price
            /\ r.bookmaker_title = TitleAt(event, p)

\* the call has returned the first of two candidates of different bookmakers
\* and different names that tie on the maximum EV
Wit_C2_TieFirstSeen ==
    /\ Returned /\ HasCandidates
    /\ \E p, q \in CandidatePositions(event) :
        /\ p[1] < q[1]
        /\ EvAt(event, p) = Val(response).ev
        /\ EvAt(event, q) = Val(response).ev
        /\ OutcomeAt(event, p).name # OutcomeAt(event, q).name
        /\ Val(response).selection_name = OutcomeAt(event, p).name
        /\ p = FirstBest(event)

\* C8 as stated: a returned selection has selection_key
\* "{market_key}:{outcome_name}" with the key of the input market as given in
\* the event, and every zero-EV result has no selection_key.
Cex_C8_KeyAsGiven ==
    Returned =>
        LET r == Val(response)
        IN  IF r.ev > 0
            THEN r.selection_key =
                    Some(MarketAt(event, FirstBest(event)).key \o <<":">>
                         \o OutcomeAt(event, FirstBest(event)).name)
            ELSE r.selection_key = None

\* C8 amended: a returned selection has selection_key
\* "{market_key}:{outcome_name}" with the lowercased key of the input market
\* that contains the selected outcome, and every zero-EV result has no
\* selection_key.
Thm_C8_KeyLowercased ==
    Returned =>
        LET r == Val(response)
        IN  IF r.ev > 0
            THEN r.selection_key =
                    Some(Lower(MarketAt(event, FirstBest(event)).key) \o <<":">>
                         \o OutcomeAt(event, FirstBest(event)).name)
            ELSE r.selection_key = None

\* the call has returned "outrights:X" for an outcome of a market keyed "Outrights"
Wit_C8_UpperCaseKey ==
    /\ Returned /\ HasCandidates
    /\ MarketAt(event, FirstBest(event)).key = KeyOutrights
    /\ Val(response).selection_key =
           Some(<<"o","u","t","r","i","g","h","t","s",":","X">>)

\* C10: the "no value found" result is unreachable: for every event with at
\* least one candidate the call returns a real selection with ev >= 0.02,
\* even with time factor 0.0 and price factor 0.0 for every candidate.
Thm_C10_NoValueUnreachable ==
    /\ Returned =>
           Val(response).edge_reason.text #
               "Modelo heuristico no encontro valor en este torneo."
    /\ (Returned /\ HasCandidates) =>
           /\ Val(response).selection_name # NA
           /\ Val(response).ev >= 20
    /\ (pc = "scoring") => (~IsNone(best) /\ best_ev >= 20)

\* the call has returned a selection with ev 0.02 for an event that has
\* started and whose only candidate has price factor 0.0
Wit_C10_FloorEv ==
    /\ Returned /\ HasCandidates
    /\ ~IsNone(delta_days) /\ Val(delta_days) <= 0
    /\ time_f = 0
    /\ \A p \in CandidatePositions(event) : _price_factor(OutcomeAt(event, p).price) = 0
    /\ Val(response).ev = 20
    /\ Val(response).selection_name = NameX

\* the call has returned a selection for an event with a commence time
SelectionWithTime ==
    /\ Returned
    /\ Val(response).ev > 0
    /\ ~IsNone(event.commence_time)

\* C9 as stated: the day count shown in the reason (one decimal) is never
\* larger than the day count the time factor was computed from.
Cex_C9_ShownNeverLarger ==
    SelectionWithTime =>
        144 * Val(Val(response).edge_reason.days_txt) <= Val(delta_days)

\* C9 amended: the clock is read twice; the day count the reason is formatted
\* from is never larger than the day count the time factor was computed from,
\* and the one-decimal figure shown is that day count rounded, never larger
\* than the time factor's day count rounded to one decimal.
Thm_C9_SecondReadNotLarger ==
    SelectionWithTime =>
        /\ ~IsNone(days_to_start) /\ ~IsNone(delta_days)
        /\ Val(days_to_start) <= Val(delta_days)
        /\ Val(response).edge_reason.days_txt = Some(FormatDays(Val(days_to_start)))
        /\ FormatDays(Val(days_to_start)) <= FormatDays(Val(delta_days))

\* the clock advanced between the two reads: the ev was computed with time
\* factor 1.0 (a start within 7 days) and the reason reports 0.0 days
Wit_C9_Skew ==
    /\ SelectionWithTime
    /\ time_f = 30
    /\ Val(delta_days) > 0
    /\ Val(days_to_start) <= 0
    /\ Val(response).edge_reason.days_txt = Some(0)

\* C1 as stated: score_outright_event never raises to its caller; a malformed
\* event gives a prediction with ev = 0.0.
Cex_C1_NeverRaises ==
    (entry = "direct") =>
        /\ pc # "raised"
        /\ (pc = "returned" /\ ~event.valid) => Val(response).ev = 0

\* C1 amended: score_outright_event returns a prediction for every event that
\* validates against the Event schema and raises to its caller for a
\* malformed one; the endpoint ev_outrights_score never raises and turns the
\* exception into ev = 0.0, selection name "Error" and an error reason.
Thm_C1_RaisesOnlyMalformed ==
    /\ (entry = "direct" /\ pc \in {"returned", "raised"}) =>
           /\ (pc = "raised") <=> ~event.valid
           /\ (pc = "raised") => IsNone(response)
           /\ (pc = "returned") => ~IsNone(response)
    /\ (entry = "endpoint") => pc # "raised"
    /\ (entry = "endpoint" /\ pc = "returned" /\ ~event.valid) =>
           /\ Val(response).ev = 0
           /\ Val(response).selection_name = Error
           /\ Val(response).selection_key = None
           /\ Val(response).edge_reason.text = "error_modelo: {exc}"

\* a direct call with a malformed event has raised
Wit_C1_DirectRaised ==
    entry = "direct" /\ ~event.valid /\ pc = "raised"

====
